---- MODULE Spec2Model ----
(***************************************************************************)
(* Ledger core of the Breada back office: the Express handlers             *)
(* child-create, checkin, withdraw and deposit over the relational schema  *)
(* created by the Prisma migrations.                                        *)
(*                                                                         *)
(* Every handler runs its reads and writes through                         *)
(* prisma.$transaction(async tx => ...) on PostgreSQL at the default       *)
(* isolation level READ COMMITTED: a read sees the rows committed when the *)
(* statement runs, the rows a transaction writes stay locked until it      *)
(* commits, a callback that throws rolls everything back, and a callback   *)
(* that returns (whatever it returns) commits.  A transaction is therefore *)
(* modelled as its read step followed by one write-and-commit step; the    *)
(* unique indexes are evaluated against the rows committed at that step.   *)
(* Time is counted in whole hours of the server's local clock.             *)
(*                                                                         *)
(* Spec: every handler of the ledger, the requests arriving within the     *)
(* same hour.  SpecClock: check-in requests arriving as time passes.       *)
(* SpecRoles: role changes, and child creation and deposits under the     *)
(* changed roles.  SpecAdmin: the credential and role gates of every       *)
(* mutating endpoint, vendor returns and QR issuance.                      *)
(***************************************************************************)
EXTENDS Integers, Sequences, FiniteSets, TLC

\* ---------------------------------------------------------------- bounds
MaxTxRows == 3        \* Transaction rows, counting one for each request in flight
MaxChildren == 2      \* Child rows

\* ------------------------------------------------------ program constants
cooldownHours == 14
creditAmount == 200
HoursPerDay == 24

\* Two requests are in flight at the same time at most: races are between pairs.
Reqs == {1, 2}
\* childId inputs: missing (falsy), the stored child, an id no Child row has
ChildIdInputs == {0, 1, MaxChildren + 1}
AmountInputs == {0, 150}
\* The clock counts hours since midnight of the first day.
\* The instants at which requests arrive: 00:00, 09:00, 10:00, 14:00 and 23:00 of
\* the first day, 00:00 and 13:00 of the second.  They lie 1, 13 and 14 hours
\* apart, within one day and across midnight.
Instants == {0, 9, 10, 14, 23, 24, 37}

NoToken == [uid |-> "", role |-> ""]
\* Bearer credentials the identity provider verifies: subject id and role claim.
\* f_x carries a volunteer claim and has no User row.
Tokens ==
  { [uid |-> "f_p1", role |-> "parent"],
    [uid |-> "f_v1", role |-> "volunteer"],
    [uid |-> "f_x", role |-> "volunteer"] }

NoUser == [id |-> "", firebaseUid |-> "", role |-> ""]
InitUsers ==
  { [id |-> "u_p1", firebaseUid |-> "f_p1", role |-> "parent", email |-> "e_p1"],
    [id |-> "u_v1", firebaseUid |-> "f_v1", role |-> "volunteer", email |-> "e_v1"],
    [id |-> "u_a1", firebaseUid |-> "f_a1", role |-> "admin", email |-> "e_a1"] }

\* The identity provider's accounts and their custom role claim ("": none set).
\* A self-registered parent has no claim; f_x is a volunteer and f_vd a vendor
\* without a User row.
InitClaims ==
  [a \in {"f_p1", "f_v1", "f_a1", "f_x", "f_vd"} |->
     CASE a = "f_p1" -> ""
       [] a = "f_a1" -> "admin"
       [] a = "f_vd" -> "vendor"
       [] OTHER -> "volunteer"]

\* Authorization headers that carry no verifiable token: absent, or rejected
\* by verifyIdToken.
BadCredentials == {"", "expired"}

VARIABLES
  users,          \* User rows
  children,       \* Child rows, in creation order
  balances,       \* Balance rows
  checkins,       \* Checkin rows
  transactions,   \* Transaction rows
  auditLog,       \* AuditLog rows
  clock,          \* the server's clock, in hours
  req,            \* per request slot: the handler's position and locals
  last,           \* the latest step: its operation and the status it answered (0: none yet)
  idp,            \* identity provider: account uid -> custom role claim
  turnins,        \* VendorTokenTurnin rows
  qrCodes,        \* QrCode rows, by their code
  adm,            \* the set-role request in flight, between its two phases
  reply,          \* the count reported by the latest create-qr-codes response
  view,           \* the latest admin children query: its parameters and the rows it returned
  sends           \* how many responses the latest answered ledger request tried to send

db == <<users, children, balances, checkins, transactions, auditLog>>
out == <<view, sends>>
ext == <<idp, turnins, qrCodes, adm, reply, out>>
vars == <<users, children, balances, checkins, transactions, auditLog, clock, req, last,
          idp, turnins, qrCodes, adm, reply, view, sends>>

\* ------------------------------------------------------------- utilities
hoursBetween(dateA, dateB) ==
  IF dateA >= dateB THEN dateA - dateB ELSE dateB - dateA

\* new Date(now.toDateString()): local midnight of the day of `now`
toDateString(now) == now \div HoursPerDay

\* The gate letting every parent through.
requireRoleParentAllowed(allowedRoles, token) ==
  token.role # "" /\ token.role \in allowedRoles \cup {"parent"}

\* The gate asking only for a verified token.
requireRoleAuthenticatedOnly(allowedRoles, token) == token.role # ""

requireRole(allowedRoles, token) ==
  token.role # "" /\ token.role \in allowedRoles

UserFindUnique(us, uid) ==
  IF \E u \in us : u.firebaseUid = uid
  THEN CHOOSE u \in us : u.firebaseUid = uid
  ELSE NoUser

ChildFindUnique(ch, c) ==
  IF \E i \in 1..Len(ch) : ch[i].id = c
  THEN CHOOSE i \in 1..Len(ch) : ch[i].id = c
  ELSE 0

BalanceFindUnique(bs, c) ==
  IF \E i \in 1..Len(bs) : bs[i].childId = c
  THEN CHOOSE i \in 1..Len(bs) : bs[i].childId = c
  ELSE 0

\* checkin.findFirst({where: {childId}, orderBy: {checkinTime: "desc"}})
CheckinFindFirst(cs, c) ==
  LET mine == {i \in 1..Len(cs) : cs[i].childId = c}
  IN IF mine = {} THEN 0
     ELSE CHOOSE i \in mine : \A j \in mine : cs[j].checkinTime <= cs[i].checkinTime

\* ------------------------------------------------------ schema constraints
\* The Balance table without its unique index.
Balance_childId_key_dropped(bs, c) == TRUE

\* CREATE UNIQUE INDEX "Balance_childId_key" ON "Balance"("childId")
Balance_childId_key(bs, c) ==
  \A i \in 1..Len(bs) : bs[i].childId # c

\* "Balance_childId_fkey" FOREIGN KEY ("childId") REFERENCES "Child"("id")
Balance_childId_fkey(ch, c) ==
  \E i \in 1..Len(ch) : ch[i].id = c

\* The Checkin table without its unique index.
Checkin_childId_checkinDate_key_dropped(cs, c, d) == TRUE

\* CREATE UNIQUE INDEX "Checkin_childId_checkinDate_key" ON "Checkin"("childId", "checkinDate")
Checkin_childId_checkinDate_key(cs, c, d) ==
  \A i \in 1..Len(cs) : ~(cs[i].childId = c /\ cs[i].checkinDate = d)

\* --------------------------------------------------------------- rows
NewBalance(c) == [childId |-> c, amountCents |-> 0, lastCheckin |-> -1]

\* balance.update({where: {childId}, data: {amountCents: {increment}, lastCheckin}})
BalanceIncrement(bs, c, by, lc) ==
  [i \in 1..Len(bs) |->
     IF bs[i].childId = c
     THEN [bs[i] EXCEPT !.amountCents = @ + by,
                        !.lastCheckin = IF lc >= 0 THEN lc ELSE @]
     ELSE bs[i]]

\* balance.update({where: {childId}, data: {amountCents: <value>}})
BalanceSet(bs, c, value) ==
  [i \in 1..Len(bs) |->
     IF bs[i].childId = c THEN [bs[i] EXCEPT !.amountCents = value] ELSE bs[i]]

\* child.update({where: {id}, data: {timesCheckedIn: {increment: 1}}})
ChildIncrement(ch, c) ==
  [i \in 1..Len(ch) |->
     IF ch[i].id = c THEN [ch[i] EXCEPT !.timesCheckedIn = @ + 1] ELSE ch[i]]

\* ------------------------------------------------------------ requests
Idle ==
  [pc |-> "idle", op |-> "", childId |-> 0, amountCents |-> 0,
   token |-> NoToken, now |-> 0, sawBalance |-> FALSE, readAmount |-> 0]

Step(op, status) == [op |-> op, status |-> status]

NoStep == Step("", 0)

\* The handler of slot r answers `status` and ends.
Respond(r, op, status) ==
  /\ req' = [req EXCEPT ![r] = Idle]
  /\ last' = Step(op, status)

NoSetRole == [pc |-> "idle", userId |-> "", role |-> ""]

\* No search term: req.query.search absent or empty.
NoSearch == [kind |-> "none", text |-> << >>, number |-> 0]

NoView ==
  [endpoint |-> "", sortBy |-> "", order |-> "", search |-> NoSearch,
   offset |-> 0, limit |-> 0, rows |-> << >>]

InFlight == {s \in Reqs : req[s].pc # "idle"}

\* A new request takes the lowest free slot.
CanStart(r) ==
  /\ req[r].pc = "idle"
  /\ \A s \in Reqs : s < r => req[s].pc # "idle"
  /\ Len(transactions) + Cardinality(InFlight) < MaxTxRows

Init ==
  /\ users = InitUsers
  /\ children = << [id |-> 1, parentId |-> "u_p1", timesCheckedIn |-> 0] >>
  \* the stored child predates eager Balance creation or not
  /\ balances \in { << >>, << NewBalance(1) >> }
  /\ checkins = << >>
  /\ transactions = << >>
  /\ auditLog = << >>
  /\ clock = 0
  /\ req = [r \in Reqs |-> Idle]
  /\ last = NoStep
  /\ idp = InitClaims
  /\ turnins = << >>
  /\ qrCodes = {}
  /\ adm = NoSetRole
  /\ reply = 0
  /\ view = NoView
  /\ sends = 0

\* Time passes.
Tick ==
  /\ \E t \in Instants : t > clock /\ clock' = t
  /\ last' = NoStep
  /\ UNCHANGED <<db, req, ext>>

\* "Child_parentId_fkey" FOREIGN KEY ("parentId") REFERENCES "User"("id")
Child_parentId_fkey(us, p) == \E u \in us : u.id = p

\* The test of the required fields looking at the name only.
MissingName(name, gender) == name = ""

\* if (!name || !gender) return res.status(400)
MissingRequired(name, gender) == name = "" \/ gender = ""

\* The parent taken from the body whenever the body names one.
ParentIdFromBody(requestingUser, bodyParentId) ==
  IF bodyParentId # "" THEN bodyParentId ELSE requestingUser.id

\* parentIdToUse: a parent creates children for themselves only
ParentIdToUse(requestingUser, bodyParentId) ==
  IF requestingUser.role = "parent" THEN requestingUser.id ELSE bodyParentId

\* POST /api/child-create
CreateChild(tok, name, gender, bodyParentId) ==
  /\ Len(children) < MaxChildren
  /\ LET requestingUser == UserFindUnique(users, tok.uid)
         id == Len(children) + 1
         answer(status) == last' = Step("child-create", status) /\ UNCHANGED req
     IN IF ~requireRole({"parent", "volunteer", "admin"}, tok)
        THEN answer(403) /\ UNCHANGED <<db, clock>>
        ELSE IF MissingRequired(name, gender)
        THEN answer(400) /\ UNCHANGED <<db, clock>>
        ELSE IF requestingUser = NoUser
        THEN answer(404) /\ UNCHANGED <<db, clock>>
        ELSE IF requestingUser.role \notin {"parent", "volunteer", "admin"}
        THEN answer(403) /\ UNCHANGED <<db, clock>>
        ELSE IF requestingUser.role # "parent" /\ bodyParentId = ""
        THEN answer(400) /\ UNCHANGED <<db, clock>>
        ELSE IF ~Child_parentId_fkey(users, ParentIdToUse(requestingUser, bodyParentId))
        THEN \* child.create throws: rollback, catch answers 500
             answer(500) /\ UNCHANGED <<db, clock>>
        ELSE LET parentIdToUse == ParentIdToUse(requestingUser, bodyParentId)
             IN /\ children' = Append(children,
                      [id |-> id, parentId |-> parentIdToUse, timesCheckedIn |-> 0])
                /\ balances' = Append(balances, NewBalance(id))
                /\ answer(201)
                /\ UNCHANGED <<users, checkins, transactions, auditLog, clock>>

\* The cooldown test one hour short.
TooSoonOneHourShort(hoursSince) == hoursSince < cooldownHours - 1

\* if (hoursSince < cooldownHours) return res.status(429)
TooSoon(hoursSince) == hoursSince < cooldownHours

\* POST /api/checkin/:childId, up to the start of the transaction
CheckinBegin(r, c, tok) ==
  /\ CanStart(r)
  /\ LET answer(status) == Respond(r, "checkin", status)
         lastCheckin == CheckinFindFirst(checkins, c)
         now == clock
     IN IF ~requireRole({"volunteer", "admin"}, tok)
        THEN answer(403)
        ELSE IF c = 0
        THEN answer(400)
        ELSE IF ChildFindUnique(children, c) = 0
        THEN answer(404)
        ELSE IF lastCheckin # 0
                /\ TooSoon(hoursBetween(now, checkins[lastCheckin].checkinTime))
        THEN answer(429)
        ELSE /\ req' = [req EXCEPT ![r] =
                  [Idle EXCEPT !.pc = "ckRead", !.op = "checkin", !.childId = c,
                               !.token = tok, !.now = now]]
             /\ last' = Step("checkin", 0)
  /\ UNCHANGED <<db, clock>>

\* tx.balance.findUnique inside the check-in transaction
CheckinTxRead(r) ==
  /\ req[r].pc = "ckRead"
  /\ req' = [req EXCEPT ![r].pc = "ckWrite",
                        ![r].sawBalance = (BalanceFindUnique(balances, req[r].childId) # 0)]
  /\ last' = Step("checkin", 0)
  /\ UNCHANGED <<db, clock>>

\* the writes of the check-in transaction, and its commit or rollback
CheckinTxWrite(r) ==
  /\ req[r].pc = "ckWrite"
  /\ LET q == req[r]
         c == q.childId
         answer(status) == Respond(r, "checkin", status)
         created == IF q.sawBalance THEN balances ELSE Append(balances, NewBalance(c))
         volunteer == UserFindUnique(users, q.token.uid)
         checkinDate == toDateString(q.now)
     IN IF ~q.sawBalance /\ ~Balance_childId_key(balances, c)
        THEN \* balance.create throws: rollback, catch answers 500
             answer(500) /\ UNCHANGED <<db, clock>>
        ELSE IF volunteer = NoUser
        THEN \* the callback returns res.status(404).json(...): the transaction commits
             /\ balances' = created
             /\ answer(404)
             /\ UNCHANGED <<users, children, checkins, transactions, auditLog, clock>>
        ELSE IF ~Checkin_childId_checkinDate_key(checkins, c, checkinDate)
        THEN \* checkin.create throws: rollback, catch answers 500
             answer(500) /\ UNCHANGED <<db, clock>>
        ELSE /\ checkins' = Append(checkins,
                   [childId |-> c, volunteerId |-> volunteer.id,
                    checkinTime |-> q.now, checkinDate |-> checkinDate])
             /\ balances' = BalanceIncrement(created, c, creditAmount, q.now)
             /\ children' = ChildIncrement(children, c)
             /\ transactions' = Append(transactions,
                   [childId |-> c, type |-> "credit", amountCents |-> creditAmount])
             /\ auditLog' = Append(auditLog,
                   [userId |-> volunteer.id, action |-> "checkin", entity |-> "child",
                    entityId |-> c, amountCents |-> creditAmount])
             /\ answer(200)
             /\ UNCHANGED <<users, clock>>

\* typeof amountCents !== "number" || amountCents <= 0
InvalidAmount(amountCents) == amountCents <= 0

\* The balance test left out.
InsufficientNever(current, amountCents) == FALSE

\* The balance test asking only for a balance that is not empty.
InsufficientIfEmpty(current, amountCents) == current <= 0

\* if (balance.amountCents < amountCents) throw new Error("Insufficient balance")
Insufficient(current, amountCents) == current < amountCents

\* POST /api/withdraw, up to the checks on the Balance read in the transaction
WithdrawBegin(r, c, amt, tok) ==
  /\ CanStart(r)
  /\ LET answer(status) == Respond(r, "withdraw", status)
         balance == BalanceFindUnique(balances, c)
     IN IF ~requireRole({"volunteer", "admin"}, tok)
        THEN answer(403)
        ELSE IF c = 0 \/ InvalidAmount(amt)
        THEN answer(400)
        ELSE IF balance = 0
        THEN answer(400)      \* throw new Error("Balance not found")
        ELSE IF Insufficient(balances[balance].amountCents, amt)
        THEN answer(400)      \* throw new Error("Insufficient balance")
        ELSE /\ req' = [req EXCEPT ![r] =
                  [Idle EXCEPT !.pc = "wdWrite", !.op = "withdraw", !.childId = c,
                               !.amountCents = amt, !.token = tok,
                               !.readAmount = balances[balance].amountCents]]
             /\ last' = Step("withdraw", 0)
  /\ UNCHANGED <<db, clock>>

\* The withdraw transaction rewriting the latest Transaction row instead of
\* creating one.
WithdrawTxWriteAmending(r) ==
  /\ req[r].pc = "wdWrite"
  /\ LET q == req[r]
         row == [childId |-> q.childId, type |-> "withdrawal",
                 amountCents |-> q.amountCents]
     IN /\ balances' = BalanceSet(balances, q.childId, q.readAmount - q.amountCents)
        /\ transactions' = IF transactions = << >> THEN << row >>
                           ELSE [transactions EXCEPT ![Len(transactions)] = row]
        /\ Respond(r, "withdraw", 200)
  /\ UNCHANGED <<users, children, checkins, auditLog, clock>>

\* the writes of the withdraw transaction, and its commit
WithdrawTxWrite(r) ==
  /\ req[r].pc = "wdWrite"
  /\ LET q == req[r]
         c == q.childId
         answer(status) == Respond(r, "withdraw", status)
         volunteer == UserFindUnique(users, q.token.uid)
     IN /\ balances' = BalanceSet(balances, c, q.readAmount - q.amountCents)
        /\ transactions' = Append(transactions,
              [childId |-> c, type |-> "withdrawal", amountCents |-> q.amountCents])
        /\ IF volunteer = NoUser
           THEN \* the callback returns res.status(404).json(...): the transaction commits
                answer(404) /\ UNCHANGED auditLog
           ELSE /\ auditLog' = Append(auditLog,
                      [userId |-> volunteer.id, action |-> "withdraw", entity |-> "child",
                       entityId |-> c, amountCents |-> q.amountCents])
                /\ answer(200)
  /\ UNCHANGED <<users, children, checkins, clock>>

\* POST /api/deposit, up to tx.balance.findUnique
DepositBegin(r, c, amt, tok) ==
  /\ CanStart(r)
  /\ LET answer(status) == Respond(r, "deposit", status)
     IN IF ~requireRole({"volunteer", "admin"}, tok)
        THEN answer(403)
        ELSE IF c = 0 \/ InvalidAmount(amt)
        THEN answer(400)
        ELSE /\ req' = [req EXCEPT ![r] =
                  [Idle EXCEPT !.pc = "dpWrite", !.op = "deposit", !.childId = c,
                               !.amountCents = amt, !.token = tok,
                               !.sawBalance = (BalanceFindUnique(balances, c) # 0)]]
             /\ last' = Step("deposit", 0)
  /\ UNCHANGED <<db, clock>>

\* the writes of the deposit transaction, and its commit or rollback
DepositTxWrite(r) ==
  /\ req[r].pc = "dpWrite"
  /\ LET q == req[r]
         c == q.childId
         answer(status) == Respond(r, "deposit", status)
         created == IF q.sawBalance THEN balances ELSE Append(balances, NewBalance(c))
         volunteer == UserFindUnique(users, q.token.uid)
     IN IF ~q.sawBalance
           /\ (~Balance_childId_key(balances, c) \/ ~Balance_childId_fkey(children, c))
        THEN \* balance.create throws: rollback, catch answers 500
             answer(500) /\ UNCHANGED <<db, clock>>
        ELSE /\ balances' = BalanceIncrement(created, c, q.amountCents, -1)
             /\ transactions' = Append(transactions,
                   [childId |-> c, type |-> "deposit", amountCents |-> q.amountCents])
             /\ IF volunteer = NoUser
                THEN \* the callback returns res.status(404).json(...): the transaction commits
                     answer(404) /\ UNCHANGED auditLog
                ELSE /\ auditLog' = Append(auditLog,
                           [userId |-> volunteer.id, action |-> "deposit", entity |-> "child",
                            entityId |-> c, amountCents |-> q.amountCents])
                     /\ answer(200)
             /\ UNCHANGED <<users, children, checkins, clock>>

\* Check-in requests as time passes.
NextClock ==
  \/ Tick
  \/ \E r \in Reqs, c \in ChildIdInputs, tok \in Tokens :
       CheckinBegin(r, c, tok) /\ UNCHANGED ext
  \/ \E r \in Reqs : CheckinTxRead(r) /\ UNCHANGED ext
  \/ \E r \in Reqs : CheckinTxWrite(r) /\ UNCHANGED ext

\* Every handler of the ledger, with the clock standing still.
Next ==
  \/ \E tok \in Tokens, name \in {"", "Ann"}, gender \in {"", "female"},
        bodyParentId \in {"", "u_p1"} :
       CreateChild(tok, name, gender, bodyParentId) /\ UNCHANGED ext
  \/ \E r \in Reqs, c \in ChildIdInputs, tok \in Tokens :
       CheckinBegin(r, c, tok) /\ UNCHANGED ext
  \/ \E r \in Reqs : CheckinTxRead(r) /\ UNCHANGED ext
  \/ \E r \in Reqs : CheckinTxWrite(r) /\ UNCHANGED ext
  \/ \E r \in Reqs, c \in ChildIdInputs, amt \in AmountInputs, tok \in Tokens :
       WithdrawBegin(r, c, amt, tok) /\ UNCHANGED ext
  \/ \E r \in Reqs : WithdrawTxWrite(r) /\ UNCHANGED ext
  \/ \E r \in Reqs, c \in ChildIdInputs, amt \in AmountInputs, tok \in Tokens :
       DepositBegin(r, c, amt, tok) /\ UNCHANGED ext
  \/ \E r \in Reqs : DepositTxWrite(r) /\ UNCHANGED ext

Spec == Init /\ [][Next]_vars

SpecClock == Init /\ [][NextClock]_vars

\* Check-in requests as time passes, served one after the other: a request
\* starts only when the one before has been answered.
NextSequential ==
  \/ Tick
  \/ \E c \in ChildIdInputs, tok \in Tokens :
       CheckinBegin(1, c, tok) /\ UNCHANGED ext
  \/ CheckinTxRead(1) /\ UNCHANGED ext
  \/ CheckinTxWrite(1) /\ UNCHANGED ext

SpecSequential == Init /\ [][NextSequential]_vars

\* The calls of res.json a ledger handler makes when its transaction step
\* answers `status`.  A 404 is sent by the callback itself, which returns the
\* response object; the transaction commits and returns it; the handler then
\* calls res.json(...) on the answered response, which throws, and the catch
\* calls res.status(...).json(...) once more.  Every other status is sent by
\* one call: after the transaction, or in the catch when the callback threw.
resJsonCalls(status) == IF status = 404 THEN 3 ELSE 1

\* A step before the transaction: each of its answers is one return res.status(...).json(...)
BeginReply ==
  /\ sends' = IF last'.status = 0 THEN sends ELSE resJsonCalls(0)
  /\ UNCHANGED <<idp, turnins, qrCodes, adm, reply, view>>

\* A step of the transaction and the code after it
TxReply ==
  /\ sends' = IF last'.status = 0 THEN sends ELSE resJsonCalls(last'.status)
  /\ UNCHANGED <<idp, turnins, qrCodes, adm, reply, view>>

\* Every handler of the ledger, with the responses each request sends.
NextReplies ==
  \/ \E r \in Reqs, c \in ChildIdInputs, tok \in Tokens :
       CheckinBegin(r, c, tok) /\ BeginReply
  \/ \E r \in Reqs : CheckinTxRead(r) /\ TxReply
  \/ \E r \in Reqs : CheckinTxWrite(r) /\ TxReply
  \/ \E r \in Reqs, c \in ChildIdInputs, amt \in AmountInputs, tok \in Tokens :
       WithdrawBegin(r, c, amt, tok) /\ BeginReply
  \/ \E r \in Reqs : WithdrawTxWrite(r) /\ TxReply
  \/ \E r \in Reqs, c \in ChildIdInputs, amt \in AmountInputs, tok \in Tokens :
       DepositBegin(r, c, amt, tok) /\ BeginReply
  \/ \E r \in Reqs : DepositTxWrite(r) /\ TxReply

SpecReplies == Init /\ [][NextReplies]_vars

\* ------------------------------------------- credentials, roles, issuance
MaxCount == 1000

\* Every endpoint that writes, by the name its responses carry.
MutatingEndpoints ==
  {"child-create", "checkin", "withdraw", "deposit", "vendor-return",
   "create-qr-codes", "set-role", "users-create"}

\* The roles each route hands to requireRole(...).
AllowedRoles(op) ==
  CASE op = "child-create" -> {"parent", "volunteer", "admin"}
    [] op = "set-role" -> {"admin"}
    [] op = "admin-create" -> {"admin"}
    [] op = "admin/create-user" -> {"admin"}
    [] op = "create-qr-codes" -> {"admin", "volunteer"}
    [] OTHER -> {"volunteer", "admin"}

\* The codes nanoid() may return.
NanoIds == {"A", "B"}
CountInputs == {0, 1, 2, MaxCount + 1}
RoleInputs == {"parent", "volunteer", "vendor"}
UserIdInputs == {"u_p1", "u_v1", "u_none"}

\* verifyFirebaseToken: req.user of a verified token, NoToken when it answers 401
verifyFirebaseToken(cred) ==
  IF cred \notin DOMAIN idp THEN NoToken
  ELSE [uid |-> cred, role |-> IF idp[cred] = "" THEN "parent" ELSE idp[cred]]

\* A request without a verifiable credential, to any endpoint: 401.
Unauthenticated(cred, op) ==
  /\ verifyFirebaseToken(cred) = NoToken
  /\ last' = Step(op, 401)
  /\ UNCHANGED <<db, clock, req, ext>>

UserById(us, id) ==
  IF \E u \in us : u.id = id THEN CHOOSE u \in us : u.id = id ELSE NoUser

\* The update addressing the row by its firebaseUid.
UserUpdateRoleByFirebaseUid(us, userId, role) ==
  {IF u.firebaseUid = userId THEN [u EXCEPT !.role = role] ELSE u : u \in us}

\* prisma.user.update({ where: { id: userId }, data: { role } })
UserUpdateRole(us, userId, role) ==
  {IF u.id = userId THEN [u EXCEPT !.role = role] ELSE u : u \in us}

\* firebaseAdminAuth.setCustomUserClaims(uid, { role }) on an account it holds
setCustomUserClaims(claims, uid, role) == [claims EXCEPT ![uid] = role]

\* The first argument the handler passes to setCustomUserClaims.
ClaimSubject(userId) == userId

\* POST /api/admin/set-role/:userId, phase 1: the persisted role
SetRolePersist(tok, userId, role) ==
  /\ adm.pc = "idle"
  /\ LET answer(status) == last' = Step("set-role", status) /\ UNCHANGED adm
     IN IF ~requireRole(AllowedRoles("set-role"), tok)
        THEN answer(403) /\ UNCHANGED users
        ELSE IF role \notin {"parent", "volunteer", "admin"}
        THEN answer(400) /\ UNCHANGED users
        ELSE IF UserById(users, userId) = NoUser
        THEN \* user.update throws (record not found): catch answers 500
             answer(500) /\ UNCHANGED users
        ELSE /\ users' = UserUpdateRole(users, userId, role)
             /\ adm' = [pc |-> "claim", userId |-> userId, role |-> role]
             /\ last' = Step("set-role", 0)
  /\ UNCHANGED <<children, balances, checkins, transactions, auditLog, clock, req,
                 idp, turnins, qrCodes, reply, out>>

\* POST /api/admin/set-role/:userId, phase 2: the identity provider's claim
SetRoleClaim ==
  /\ adm.pc = "claim"
  /\ LET uid == ClaimSubject(adm.userId)
     IN IF uid \in DOMAIN idp
        THEN /\ idp' = setCustomUserClaims(idp, uid, adm.role)
             /\ last' = Step("set-role", 200)
        ELSE \* the provider rejects (no such account): catch answers 500
             /\ last' = Step("set-role", 500)
             /\ UNCHANGED idp
  /\ adm' = NoSetRole
  /\ UNCHANGED <<db, clock, req, turnins, qrCodes, reply, out>>

\* The foreign key resolving the verifier by firebaseUid.
VendorTokenTurnin_verifiedBy_fkey_firebaseUid(us, id) ==
  \E u \in us : u.firebaseUid = id

\* "VendorTokenTurnin_verifiedBy_fkey" FOREIGN KEY ("verifiedBy") REFERENCES "User"("id")
VendorTokenTurnin_verifiedBy_fkey(us, id) == \E u \in us : u.id = id

\* "VendorTokenTurnin_vendorId_fkey" FOREIGN KEY ("vendorId") REFERENCES "User"("id")
VendorTokenTurnin_vendorId_fkey(us, id) == \E u \in us : u.id = id

\* "AuditLog_userId_fkey" FOREIGN KEY ("userId") REFERENCES "User"("id")
AuditLog_userId_fkey(us, id) == \E u \in us : u.id = id

\* POST /api/vendor-return: two writes, each committed on its own
VendorReturn(tok, vendorId, tokensSubmitted) ==
  /\ LET answer(status) == last' = Step("vendor-return", status)
         id == Len(turnins) + 1
         record == [id |-> id, vendorId |-> vendorId,
                    tokensSubmitted |-> tokensSubmitted, verifiedBy |-> tok.uid]
     IN IF ~requireRole(AllowedRoles("vendor-return"), tok)
        THEN answer(403) /\ UNCHANGED <<turnins, auditLog>>
        ELSE IF vendorId = "" \/ tokensSubmitted < 0
        THEN answer(400) /\ UNCHANGED <<turnins, auditLog>>
        ELSE IF ~VendorTokenTurnin_vendorId_fkey(users, vendorId)
                \/ ~VendorTokenTurnin_verifiedBy_fkey(users, tok.uid)
        THEN \* vendorTokenTurnin.create throws: catch answers 500
             answer(500) /\ UNCHANGED <<turnins, auditLog>>
        ELSE /\ turnins' = Append(turnins, record)
             /\ IF ~AuditLog_userId_fkey(users, tok.uid)
                THEN \* auditLog.create throws: catch answers 500
                     answer(500) /\ UNCHANGED auditLog
                ELSE /\ auditLog' = Append(auditLog,
                           [userId |-> tok.uid, action |-> "vendor_return",
                            entity |-> "vendor_token_turnin", entityId |-> id,
                            amountCents |-> tokensSubmitted])
                     /\ answer(200)
  /\ UNCHANGED <<users, children, balances, checkins, transactions, clock, req,
                 idp, qrCodes, adm, reply, out>>

\* QrCode.code is a unique key: createMany({ skipDuplicates: true }) leaves out
\* the rows whose code is taken, in the table or earlier in the batch.
CreateManySkipDuplicates(rows, codes) ==
  rows \cup {codes[i] : i \in 1..Len(codes)}

\* POST /api/admin/create-qr-codes; codes[i] is the i-th value of nanoid()
CreateQrCodes(tok, count, codes) ==
  /\ LET answer(status) == last' = Step("create-qr-codes", status)
     IN IF ~requireRole(AllowedRoles("create-qr-codes"), tok)
        THEN answer(403) /\ UNCHANGED <<qrCodes, reply>>
        ELSE IF count <= 0 \/ count > MaxCount
        THEN answer(400) /\ UNCHANGED <<qrCodes, reply>>
        ELSE /\ qrCodes' = CreateManySkipDuplicates(qrCodes, codes)
             /\ reply' = count
             /\ answer(200)
  /\ UNCHANGED <<db, clock, req, idp, turnins, adm, out>>

\* Role changes, and what the changed roles let their holders do: create
\* children, and deposit on a child that has no Transaction yet.
NextRoles ==
  \/ \E cred \in DOMAIN idp, userId \in UserIdInputs, role \in RoleInputs :
       SetRolePersist(verifyFirebaseToken(cred), userId, role)
  \/ SetRoleClaim
  \/ \E cred \in DOMAIN idp, name \in {"", "Ann"}, gender \in {"", "female"},
        bodyParentId \in {"", "u_v1", "u_none"} :
       CreateChild(verifyFirebaseToken(cred), name, gender, bodyParentId)
         /\ UNCHANGED ext
  \/ \E c \in ChildIdInputs, amt \in AmountInputs, cred \in DOMAIN idp :
       /\ Len(transactions) = 0
       /\ DepositBegin(1, c, amt, verifyFirebaseToken(cred))
       /\ UNCHANGED ext
  \/ DepositTxWrite(1) /\ UNCHANGED ext

SpecRoles == Init /\ [][NextRoles]_vars

\* The credential and role gates of every mutating endpoint, vendor returns
\* and QR issuance: one ledger request at a time, while no Transaction is
\* stored; the check-ins name children that are not stored and the role
\* changes name no stored user (Spec and SpecRoles have the stored ones).
NextAdmin ==
  \/ \E cred \in BadCredentials, op \in MutatingEndpoints : Unauthenticated(cred, op)
  \/ \E cred \in DOMAIN idp, role \in RoleInputs :
       SetRolePersist(verifyFirebaseToken(cred), "u_none", role)
  \/ \E cred \in DOMAIN idp, vendorId \in {"", "u_v1"}, tokensSubmitted \in {-1, 5} :
       VendorReturn(verifyFirebaseToken(cred), vendorId, tokensSubmitted)
  \/ \E cred \in DOMAIN idp, count \in CountInputs :
       \E codes \in [1..(IF count <= 2 THEN count ELSE 0) -> NanoIds] :
         CreateQrCodes(verifyFirebaseToken(cred), count, codes)
  \/ \E cred \in DOMAIN idp, name \in {"", "Ann"} :
       CreateChild(verifyFirebaseToken(cred), name, "female", "u_v1")
         /\ UNCHANGED ext
  \/ \E c \in {0, MaxChildren + 1}, cred \in DOMAIN idp :
       /\ Len(transactions) = 0
       /\ CheckinBegin(1, c, verifyFirebaseToken(cred))
       /\ UNCHANGED ext
  \/ \E c \in ChildIdInputs, amt \in AmountInputs, cred \in DOMAIN idp :
       /\ Len(transactions) = 0
       /\ WithdrawBegin(1, c, amt, verifyFirebaseToken(cred))
       /\ UNCHANGED ext
  \/ \E c \in ChildIdInputs, amt \in AmountInputs, cred \in DOMAIN idp :
       /\ Len(transactions) = 0
       /\ DepositBegin(1, c, amt, verifyFirebaseToken(cred))
       /\ UNCHANGED ext
  \/ DepositTxWrite(1) /\ UNCHANGED ext

SpecAdmin == Init /\ [][NextAdmin]_vars

\* --------------------------------------------------------- user accounts
\* name and email of a request body: missing, held by a User row, free
NameInputs == {"", "Ann"}
EmailInputs == {"", "e_p1", "e_n1", "e_n2"}
\* role of a request body: absent, or a value
BodyRoleInputs == {"undefined", "parent", "volunteer", "admin"}
\* email of an admin-create body: missing, free
AdminEmailInputs == {"", "e_n2"}
\* email of an admin/create-user body: missing, held by an account, free
AccountEmailInputs == {"", "e_p1", "e_n1"}
\* firebaseUid of an admin-create body: missing, an account without a User
\* row, an account that has one
FirebaseUidInputs == {"", "f_x", "f_a1"}

\* The ids the database gives the User rows it creates, in order.
NewUserIds == <<"u_n1", "u_n2">>
\* The address of each account of the identity provider.  Of the addresses
\* requests carry, e_n1 is the one admin/create-user can open an account for,
\* and f_n1 is the uid the provider gives that account.
AccountEmails ==
  [a \in {"f_p1", "f_v1", "f_a1", "f_x", "f_vd", "f_n1"} |->
     CASE a = "f_p1" -> "e_p1"
       [] a = "f_v1" -> "e_v1"
       [] a = "f_a1" -> "e_a1"
       [] a = "f_x" -> "e_x"
       [] a = "f_vd" -> "e_vd"
       [] OTHER -> "e_n1"]

\* CREATE TYPE "UserRole"
UserRole == {"parent", "volunteer", "vendor", "admin"}

\* CREATE UNIQUE INDEX "User_email_key" ON "User"("email")
User_email_key(us, email) == \A u \in us : u.email # email

\* CREATE UNIQUE INDEX "User_firebaseUid_key" ON "User"("firebaseUid")
User_firebaseUid_key(us, uid) == \A u \in us : u.firebaseUid # uid

HasNewUserId(us) ==
  \E i \in 1..Len(NewUserIds) : \A u \in us : u.id # NewUserIds[i]

\* The id of the next User row.
NewUserId(us) ==
  NewUserIds[CHOOSE i \in 1..Len(NewUserIds) :
               /\ \A u \in us : u.id # NewUserIds[i]
               /\ \A j \in 1..(i - 1) : \E u \in us : u.id = NewUserIds[j]]

\* prisma.user.create: whether the database takes the row
UserCreateAccepted(us, firebaseUid, email, role) ==
  /\ email # ""
  /\ role \in UserRole
  /\ User_email_key(us, email)
  /\ User_firebaseUid_key(us, firebaseUid)

UserCreate(us, firebaseUid, email, role) ==
  us \cup {[id |-> NewUserId(us), firebaseUid |-> firebaseUid, role |-> role,
            email |-> email]}

\* The rule refusing only the admin role to callers who are not admins.
NonParentRoleRefusedAdminOnly(role, tok) == role = "admin" /\ tok.role # "admin"

\* users-create: "Only admins can assign non-parent roles"
NonParentRoleRefused(role, tok) == role # "parent" /\ tok.role # "admin"

\* POST /api/users-create: any verified caller; the row carries the caller's uid
UsersCreate(tok, name, email, bodyRole) ==
  /\ HasNewUserId(users)
  /\ tok # NoToken
  /\ LET role == IF bodyRole = "undefined" THEN "parent" ELSE bodyRole
         answer(status) == last' = Step("users-create", status)
     IN IF email = "" \/ name = ""
        THEN answer(400) /\ UNCHANGED <<users, auditLog>>
        ELSE IF NonParentRoleRefused(role, tok)
        THEN answer(403) /\ UNCHANGED <<users, auditLog>>
        ELSE IF ~User_email_key(users, email)
        THEN answer(409) /\ UNCHANGED <<users, auditLog>>
        ELSE IF ~UserCreateAccepted(users, tok.uid, email, role)
        THEN \* user.create throws: catch answers 500
             answer(500) /\ UNCHANGED <<users, auditLog>>
        ELSE /\ users' = UserCreate(users, tok.uid, email, role)
             \* actingUser is the row just created: it holds the caller's uid
             /\ auditLog' = Append(auditLog,
                   [userId |-> UserFindUnique(users', tok.uid).id,
                    action |-> "create_user", entity |-> "user",
                    entityId |-> NewUserId(users), amountCents |-> 0])
             /\ answer(201)
  /\ UNCHANGED <<children, balances, checkins, transactions, clock, req,
                 idp, turnins, qrCodes, adm, reply, out>>

\* POST /api/admin-create: a User row with role admin for a given firebaseUid
AdminCreate(tok, firebaseUid, email) ==
  /\ HasNewUserId(users)
  /\ tok # NoToken
  /\ LET answer(status) == last' = Step("admin-create", status)
     IN IF ~requireRole(AllowedRoles("admin-create"), tok)
        THEN answer(403) /\ UNCHANGED users
        ELSE IF firebaseUid = ""
        THEN answer(400) /\ UNCHANGED users
        ELSE IF ~UserCreateAccepted(users, firebaseUid, email, "admin")
        THEN \* user.create throws: catch answers 500
             answer(500) /\ UNCHANGED users
        ELSE /\ users' = UserCreate(users, firebaseUid, email, "admin")
             /\ answer(200)
  /\ UNCHANGED <<children, balances, checkins, transactions, auditLog, clock, req,
                 idp, turnins, qrCodes, adm, reply, out>>

\* admin.auth().createUser({ email }): the account opened, "" when the
\* provider rejects the address (an account holds it)
createUser(claims, email) ==
  IF \E a \in DOMAIN claims : AccountEmails[a] = email
  THEN ""
  ELSE CHOOSE a \in DOMAIN AccountEmails :
         a \notin DOMAIN claims /\ AccountEmails[a] = email

\* POST /api/admin/create-user: an account, its role claim, then the User row
AdminCreateUser(tok, name, email, role) ==
  /\ HasNewUserId(users)
  /\ tok # NoToken
  /\ LET answer(status) == last' = Step("admin/create-user", status)
         uid == createUser(idp, email)
     IN IF ~requireRole(AllowedRoles("admin/create-user"), tok)
        THEN answer(403) /\ UNCHANGED <<users, idp>>
        ELSE IF name = "" \/ email = "" \/ role = "undefined"
        THEN answer(400) /\ UNCHANGED <<users, idp>>
        ELSE IF uid = ""
        THEN \* createUser throws: catch answers 500
             answer(500) /\ UNCHANGED <<users, idp>>
        ELSE /\ idp' = (uid :> role) @@ idp
             /\ IF ~UserCreateAccepted(users, uid, email, role)
                THEN \* user.create throws: the account and its claim stay
                     answer(500) /\ UNCHANGED users
                ELSE /\ users' = UserCreate(users, uid, email, role)
                     /\ answer(200)
  /\ UNCHANGED <<children, balances, checkins, transactions, auditLog, clock, req,
                 turnins, qrCodes, adm, reply, out>>

\* The endpoints that write User rows, called with every credential.
NextUsers ==
  \/ \E cred \in BadCredentials : Unauthenticated(cred, "users-create")
  \/ \E cred \in DOMAIN idp, name \in NameInputs, email \in EmailInputs,
        bodyRole \in BodyRoleInputs :
       UsersCreate(verifyFirebaseToken(cred), name, email, bodyRole)
  \/ \E cred \in DOMAIN idp, firebaseUid \in FirebaseUidInputs,
        email \in AdminEmailInputs :
       AdminCreate(verifyFirebaseToken(cred), firebaseUid, email)
  \/ \E cred \in DOMAIN idp, name \in NameInputs, email \in AccountEmailInputs,
        role \in BodyRoleInputs :
       AdminCreateUser(verifyFirebaseToken(cred), name, email, role)
  \/ \E cred \in DOMAIN idp, userId \in UserIdInputs \cup {"u_n1"},
        role \in RoleInputs :
       SetRolePersist(verifyFirebaseToken(cred), userId, role)
  \/ SetRoleClaim

SpecUsers == Init /\ [][NextUsers]_vars

\* ---------------------------------------------------------- request bodies
\* amountCents as the JSON body carries it: its JavaScript type and, for a
\* number, its value in tenths of a cent.  "150" (a string), 0, -150, 1.5, 150.
AmountBodies ==
  { [type |-> "string", tenths |-> 1500],
    [type |-> "number", tenths |-> 0],
    [type |-> "number", tenths |-> -1500],
    [type |-> "number", tenths |-> 15],
    [type |-> "number", tenths |-> 1500] }

\* typeof amountCents !== "number" || amountCents <= 0
InvalidAmountBody(a) == a.type # "number" \/ a.tenths <= 0

\* "amountCents" INTEGER: Prisma accepts a whole number for the column
IsInt(a) == a.tenths % 10 = 0

\* POST /api/withdraw with the amount as the body carries it
WithdrawBody(r, c, a, tok) ==
  IF a.type = "number" /\ IsInt(a)
  THEN WithdrawBegin(r, c, a.tenths \div 10, tok)
  ELSE /\ CanStart(r)
       /\ IF ~requireRole({"volunteer", "admin"}, tok)
          THEN Respond(r, "withdraw", 403)
          ELSE \* the validation, or a throw inside the transaction (Balance not
               \* found, Insufficient balance, balance.update refusing a
               \* fraction): the catch answers 400
               Respond(r, "withdraw", 400)
       /\ UNCHANGED <<db, clock>>

\* POST /api/deposit with the amount as the body carries it
DepositBody(r, c, a, tok) ==
  IF a.type = "number" /\ IsInt(a)
  THEN DepositBegin(r, c, a.tenths \div 10, tok)
  ELSE /\ CanStart(r)
       /\ IF ~requireRole({"volunteer", "admin"}, tok)
          THEN Respond(r, "deposit", 403)
          ELSE IF c = 0 \/ InvalidAmountBody(a)
          THEN Respond(r, "deposit", 400)
          ELSE \* balance.create or balance.update({increment}) refusing a
               \* fraction throws: rollback, catch answers 500
               Respond(r, "deposit", 500)
       /\ UNCHANGED <<db, clock>>

\* Withdraw and Deposit over every kind of amount.
NextAmounts ==
  \/ \E r \in Reqs, c \in ChildIdInputs, a \in AmountBodies, tok \in Tokens :
       WithdrawBody(r, c, a, tok) /\ UNCHANGED ext
  \/ \E r \in Reqs : WithdrawTxWrite(r) /\ UNCHANGED ext
  \/ \E r \in Reqs, c \in ChildIdInputs, a \in AmountBodies, tok \in Tokens :
       DepositBody(r, c, a, tok) /\ UNCHANGED ext
  \/ \E r \in Reqs : DepositTxWrite(r) /\ UNCHANGED ext

SpecAmounts == Init /\ [][NextAmounts]_vars

\* ------------------------------------------------------ admin children views
\* Text columns are sequences of letters.  The tables as the admin views read
\* them, with the columns the views use: two parents (Al, Bo) and three
\* children whose orders by name, parent, balance, check-in count, last
\* check-in and age all differ.  Dates of birth are whole years relative to
\* Date.now().
ViewUsers ==
  { [id |-> "u_p1", firebaseUid |-> "f_p1", role |-> "parent", name |-> <<"A", "l">>],
    [id |-> "u_p2", firebaseUid |-> "f_p2", role |-> "parent", name |-> <<"B", "o">>],
    [id |-> "u_a1", firebaseUid |-> "f_a1", role |-> "admin", name |-> <<"E", "d">>] }

ViewChildren ==
  << [id |-> 1, parentId |-> "u_p1", timesCheckedIn |-> 2, name |-> <<"C", "y">>,
      dateOfBirth |-> -5],
     [id |-> 2, parentId |-> "u_p2", timesCheckedIn |-> 1, name |-> <<"A", "n", "n">>,
      dateOfBirth |-> -9],
     [id |-> 3, parentId |-> "u_p1", timesCheckedIn |-> 5, name |-> <<"B", "e", "a">>,
      dateOfBirth |-> -7] >>

ViewBalances ==
  << [childId |-> 1, amountCents |-> 100, lastCheckin |-> 30],
     [childId |-> 2, amountCents |-> 200, lastCheckin |-> 20],
     [childId |-> 3, amountCents |-> 300, lastCheckin |-> 10] >>

InitViews ==
  /\ users = ViewUsers
  /\ children = ViewChildren
  /\ balances = ViewBalances
  /\ checkins = << >>
  /\ transactions = << >>
  /\ auditLog = << >>
  /\ clock = 0
  /\ req = [r \in Reqs |-> Idle]
  /\ last = NoStep
  /\ idp = InitClaims
  /\ turnins = << >>
  /\ qrCodes = {}
  /\ adm = NoSetRole
  /\ reply = 0
  /\ view = NoView
  /\ sends = 0

\* req.query values
SortByInputs ==
  {"name", "age", "balance", "parentName", "timesCheckedIn", "lastCheckin", "address"}
OrderInputs == {"asc", "desc", "down"}
\* search: none, "b" (in Bea, and in Bo, the parent of Ann), "200" (a balance)
SearchInputs ==
  { NoSearch,
    [kind |-> "text", text |-> <<"b">>, number |-> 0],
    [kind |-> "number", text |-> <<"2", "0", "0">>, number |-> 200] }

\* mode: "insensitive"
Fold(ch) ==
  CASE ch = "A" -> "a" [] ch = "B" -> "b" [] ch = "C" -> "c" [] ch = "E" -> "e"
    [] ch = "O" -> "o" [] OTHER -> ch

Alphabet == <<"a", "b", "c", "d", "e", "l", "n", "o", "y">>

Rank(ch) == CHOOSE i \in 1..Len(Alphabet) : Alphabet[i] = Fold(ch)

\* the database's order of two texts
RECURSIVE TextLess(_, _)
TextLess(a, b) ==
  IF b = << >> THEN FALSE
  ELSE IF a = << >> THEN TRUE
  ELSE IF Rank(a[1]) # Rank(b[1]) THEN Rank(a[1]) < Rank(b[1])
  ELSE TextLess(Tail(a), Tail(b))

\* { contains: s, mode: "insensitive" }
Contains(str, sub) ==
  \E i \in 1..(Len(str) - Len(sub) + 1) :
    \A k \in 1..Len(sub) : Fold(str[i + k - 1]) = Fold(sub[k])

\* include: { parent, balance }
Include(i) ==
  [id |-> children[i].id, name |-> children[i].name,
   dateOfBirth |-> children[i].dateOfBirth,
   timesCheckedIn |-> children[i].timesCheckedIn,
   parent |-> CHOOSE u \in users : u.id = children[i].parentId,
   balance |-> balances[BalanceFindUnique(balances, children[i].id)]]

\* where: { OR: [name, parent.name contains s, balance.amountCents = Number(s)] }
Where(search, c) ==
  \/ search.kind = "none"
  \/ Contains(c.name, search.text)
  \/ Contains(c.parent.name, search.text)
  \/ search.kind = "number" /\ c.balance.amountCents = search.number

\* String(req.query.order ?? "asc") === "desc" ? "desc" : "asc"
OrderOf(order) == IF order = "desc" THEN "desc" ELSE "asc"

\* the orderBy of GET /api/admin/children
ListOrderBy(sortBy, order) ==
  CASE sortBy = "parentName" ->
         << [key |-> "parentName", dir |-> order], [key |-> "name", dir |-> "asc"] >>
    [] sortBy = "name" -> << [key |-> "name", dir |-> order] >>
    [] sortBy = "balance" -> << [key |-> "balance", dir |-> order] >>
    [] sortBy = "timesCheckedIn" -> << [key |-> "timesCheckedIn", dir |-> order] >>
    [] sortBy = "lastCheckin" -> << [key |-> "lastCheckin", dir |-> order] >>
    [] OTHER ->
         << [key |-> "parentName", dir |-> "asc"], [key |-> "name", dir |-> "asc"] >>

\* the orderBy of GET /api/admin/children/export
ExportOrderBy(sortBy, order) ==
  IF sortBy = "parentName"
  THEN << [key |-> "parentName", dir |-> order], [key |-> "name", dir |-> "asc"] >>
  ELSE << [key |-> "name", dir |-> order] >>

KeyLess(c1, c2, key) ==
  CASE key = "name" -> TextLess(c1.name, c2.name)
    [] key = "parentName" -> TextLess(c1.parent.name, c2.parent.name)
    [] key = "balance" -> c1.balance.amountCents < c2.balance.amountCents
    [] key = "timesCheckedIn" -> c1.timesCheckedIn < c2.timesCheckedIn
    [] OTHER -> c1.balance.lastCheckin < c2.balance.lastCheckin

\* c1 comes strictly before c2 under the orderBy list
RECURSIVE Before(_, _, _)
Before(c1, c2, orderBy) ==
  IF orderBy = << >> THEN FALSE
  ELSE LET k == orderBy[1]
           lt == IF k.dir = "asc" THEN KeyLess(c1, c2, k.key) ELSE KeyLess(c2, c1, k.key)
           gt == IF k.dir = "asc" THEN KeyLess(c2, c1, k.key) ELSE KeyLess(c1, c2, k.key)
       IN lt \/ (~gt /\ Before(c1, c2, Tail(orderBy)))

\* child.findMany({ where, orderBy, include }): every order of the matching
\* rows that the orderBy list admits (rows it leaves tied come in any order)
FindMany(search, orderBy) ==
  LET found == {Include(i) : i \in {j \in 1..Len(children) : Where(search, Include(j))}}
      n == Cardinality(found)
  IN {s \in [1..n -> found] :
        /\ \A i, j \in 1..n : i # j => s[i] # s[j]
        /\ \A i, j \in 1..n : i < j => ~Before(s[j], s[i], orderBy)}

\* skip: offset, take: limit
Page(rows, offset, limit) ==
  SubSeq(rows, offset + 1, IF offset + limit < Len(rows) THEN offset + limit ELSE Len(rows))

\* Math.floor((Date.now() - dob.getTime()) / one year)
computeAge(dob) == 0 - dob

\* the listing's row as the frontend gets it
Mapped(c) ==
  [id |-> c.id, name |-> c.name, age |-> computeAge(c.dateOfBirth),
   balanceCents |-> c.balance.amountCents, parentName |-> c.parent.name,
   timesCheckedIn |-> c.timesCheckedIn, lastCheckin |-> c.balance.lastCheckin]

\* the export's CSV row: the balance in whole currency units
CsvRow(c) ==
  [name |-> c.name, age |-> computeAge(c.dateOfBirth),
   balance |-> c.balance.amountCents \div 100, parentName |-> c.parent.name,
   timesCheckedIn |-> c.timesCheckedIn, last |-> c.balance.lastCheckin]

\* the rows GET /api/admin/children may return
ListRows(sortBy, order, search, offset, limit) ==
  {[i \in 1..Len(Page(s, offset, limit)) |-> Mapped(Page(s, offset, limit)[i])] :
     s \in FindMany(search, ListOrderBy(sortBy, OrderOf(order)))}

\* the rows GET /api/admin/children/export may return
ExportRows(sortBy, order, search) ==
  {[i \in 1..Len(s) |-> CsvRow(s[i])] :
     s \in FindMany(search, ExportOrderBy(sortBy, OrderOf(order)))}

\* GET /api/admin/children
ListChildren(tok, sortBy, order, search, offset, limit) ==
  /\ IF ~requireRole({"admin"}, tok)
     THEN last' = Step("children", 403) /\ UNCHANGED view
     ELSE /\ \E rows \in ListRows(sortBy, order, search, offset, limit) :
               view' = [endpoint |-> "children", sortBy |-> sortBy, order |-> order,
                        search |-> search, offset |-> offset, limit |-> limit,
                        rows |-> rows]
          /\ last' = Step("children", 200)
  /\ UNCHANGED <<db, clock, req, idp, turnins, qrCodes, adm, reply, sends>>

\* GET /api/admin/children/export
ExportChildren(tok, sortBy, order, search) ==
  /\ IF ~requireRole({"admin"}, tok)
     THEN last' = Step("children/export", 403) /\ UNCHANGED view
     ELSE /\ \E rows \in ExportRows(sortBy, order, search) :
               view' = [endpoint |-> "children/export", sortBy |-> sortBy,
                        order |-> order, search |-> search, offset |-> 0,
                        limit |-> 0, rows |-> rows]
          /\ last' = Step("children/export", 200)
  /\ UNCHANGED <<db, clock, req, idp, turnins, qrCodes, adm, reply, sends>>

\* offset and limit: the whole result, or its second and third row
PageInputs == {[offset |-> 0, limit |-> 100], [offset |-> 1, limit |-> 2]}

\* The two admin views of the children, over every query of an admin; a
\* volunteer's query.
NextViews ==
  \/ \E sortBy \in SortByInputs, order \in OrderInputs, search \in SearchInputs,
        page \in PageInputs :
       ListChildren(verifyFirebaseToken("f_a1"), sortBy, order, search,
                    page.offset, page.limit)
  \/ \E sortBy \in SortByInputs, order \in OrderInputs, search \in SearchInputs :
       ExportChildren(verifyFirebaseToken("f_a1"), sortBy, order, search)
  \/ ListChildren(verifyFirebaseToken("f_v1"), "name", "asc", NoSearch, 0, 100)
  \/ ExportChildren(verifyFirebaseToken("f_v1"), "name", "asc", NoSearch)

SpecViews == InitViews /\ [][NextViews]_vars

\* ------------------------------------------------------------ properties
LedgerOps == {"checkin", "withdraw", "deposit"}
tables == <<children, balances, checkins, transactions, auditLog>>

\* The step ends the request of slot r, which was past its first step.
Finishes(r) == req[r].pc # "idle" /\ req'[r].pc = "idle"

BalanceRows(bs, c) == {i \in 1..Len(bs) : bs[i].childId = c}

\* What the ledger says the child owns: credits and deposits less withdrawals.
RECURSIVE LedgerSum(_, _)
LedgerSum(txs, c) ==
  IF txs = << >> THEN 0
  ELSE LET t == txs[Len(txs)]
           rest == LedgerSum(SubSeq(txs, 1, Len(txs) - 1), c)
       IN IF t.childId # c THEN rest
          ELSE IF t.type = "withdrawal" THEN rest - t.amountCents
          ELSE rest + t.amountCents

LedgerOf(txs, c) == SelectSeq(txs, LAMBDA t : t.childId = c)

\* The child's most recent Checkin lies exactly `hours` before `now`.
LastCheckinAt(c, now, hours) ==
  /\ \E i \in 1..Len(checkins) : checkins[i].childId = c
  /\ \A i \in 1..Len(checkins) :
       checkins[i].childId = c => checkins[i].checkinTime <= now - hours
  /\ \E i \in 1..Len(checkins) :
       checkins[i].childId = c /\ checkins[i].checkinTime = now - hours

\* C1: every Balance.amountCents is >= 0 in every reachable state, and no
\* Withdraw gets to its write with an amount above the balance it read (it
\* is rejected, not clamped).
C1_BalanceNeverNegative ==
  /\ \A i \in 1..Len(balances) : balances[i].amountCents >= 0
  /\ \A r \in Reqs :
       req[r].pc = "wdWrite" => req[r].amountCents <= req[r].readAmount

\* A Withdraw of the whole balance was answered 200 and left 0.
C1_Witness ==
  /\ last = Step("withdraw", 200)
  /\ \E i \in 1..Len(balances) : balances[i].amountCents = 0
  /\ \E i \in 1..Len(transactions) : transactions[i].type = "withdrawal"

\* C2: a Deposit, Withdraw or CheckIn answered 200 appends exactly one
\* Transaction of the request's child, of the operation's type (deposit,
\* withdrawal, credit) and magnitude (the amount asked, 200 for CheckIn);
\* a request answered with an error appends none.
C2_OneTransactionPerSuccess ==
  [][ /\ \A r \in Reqs :
           (Finishes(r) /\ last'.status = 200) =>
             transactions' = Append(transactions,
               [childId |-> req[r].childId,
                type |-> CASE req[r].op = "checkin" -> "credit"
                           [] req[r].op = "withdraw" -> "withdrawal"
                           [] OTHER -> "deposit",
                amountCents |-> IF req[r].op = "checkin" THEN 200
                                ELSE req[r].amountCents])
      /\ (last'.op \in LedgerOps /\ last'.status \notin {0, 200}) =>
           transactions' = transactions ]_vars

\* C3: in every reachable state a child's Balance.amountCents equals the sum
\* of its credit and deposit Transactions less the sum of its withdrawals.
C3_BalanceEqualsLedger ==
  \A i \in 1..Len(balances) :
    balances[i].amountCents = LedgerSum(transactions, balances[i].childId)

\* C4: a CheckIn by a volunteer or admin for a child whose most recent
\* Checkin is less than 14 hours old is answered 429, ends there, and leaves
\* every table unchanged.
C4_TooSoonRejected ==
  [][ \A r \in Reqs, c \in ChildIdInputs, tok \in Tokens :
        ( /\ tok.role \in {"volunteer", "admin"}
          /\ \E i \in 1..Len(checkins) :
               /\ checkins[i].childId = c
               /\ clock - checkins[i].checkinTime < cooldownHours
          /\ CheckinBegin(r, c, tok) ) =>
          (last' = Step("checkin", 429) /\ req' = req /\ UNCHANGED tables) ]_vars

\* A CheckIn 13 hours after the child's latest Checkin was answered 429.
C4_Witness ==
  /\ last = Step("checkin", 429)
  /\ LastCheckinAt(1, clock, cooldownHours - 1)

\* C5: a CheckIn made exactly 14 hours after the child's most recent Checkin,
\* by a volunteer with a User row and with no other request in flight,
\* succeeds whatever the hour of the earlier one: it is answered 200, appends
\* a Checkin and credits 200.
C5_ExactlyFourteenSucceeds ==
  [][ \A r \in Reqs :
        (CheckinTxWrite(r) /\ req[r].sawBalance /\ InFlight = {r}
           /\ UserFindUnique(users, req[r].token.uid) # NoUser
           /\ LastCheckinAt(req[r].childId, req[r].now, cooldownHours)) =>
          /\ last' = Step("checkin", 200)
          /\ Len(checkins') = Len(checkins) + 1
          /\ LedgerSum(transactions', req[r].childId)
               = LedgerSum(transactions, req[r].childId) + creditAmount ]_vars

\* C6: in every reachable state any two Checkin rows of one child lie at
\* least 14 hours apart.
C6_CheckinsFourteenApart ==
  \A i, j \in 1..Len(checkins) :
    (i # j /\ checkins[i].childId = checkins[j].childId) =>
      hoursBetween(checkins[i].checkinTime, checkins[j].checkinTime) >= cooldownHours

\* C7: a Withdraw by a volunteer or admin of more than the child's current
\* balance is answered 400 (Insufficient balance), ends there, and leaves
\* the balance, the Transactions and the AuditLog unchanged.
C7_InsufficientRejected ==
  [][ \A c \in ChildIdInputs, amt \in AmountInputs :
        (\E i \in BalanceRows(balances, c) : balances[i].amountCents < amt) =>
          \A r \in Reqs, tok \in Tokens :
            (tok.role \in {"volunteer", "admin"} /\ WithdrawBegin(r, c, amt, tok)) =>
              (last' = Step("withdraw", 400) /\ req' = req /\ UNCHANGED tables) ]_vars

\* A Withdraw of 150 from a balance of 50 was answered 400.
C7_Witness ==
  /\ last = Step("withdraw", 400)
  /\ \E i \in BalanceRows(balances, 1) :
       balances[i].amountCents > 0 /\ balances[i].amountCents < 150
  /\ LedgerOf(transactions, 1)
       = << [childId |-> 1, type |-> "credit", amountCents |-> 200],
            [childId |-> 1, type |-> "withdrawal", amountCents |-> 150] >>

\* C8: when a first Deposit(a) and a CheckIn race on a child without a
\* Balance (each read none), the one that writes second succeeds as well:
\* it is answered 200 and the balance becomes a + 200.
C8_RaceBothTakeEffect ==
  [][ \A r \in Reqs :
        LET c == req[r].childId
            a == req[r].amountCents
            raced(other) ==
              /\ Finishes(r) /\ ~req[r].sawBalance
              /\ UserFindUnique(users, req[r].token.uid) # NoUser
              /\ Len(LedgerOf(transactions, c)) = 1
              /\ LedgerOf(transactions, c)[1].type = other
            done(sum) ==
              /\ last'.status = 200
              /\ \E i \in BalanceRows(balances', c) : balances'[i].amountCents = sum
        IN /\ (req[r].pc = "dpWrite" /\ raced("credit")) => done(a + creditAmount)
           /\ (req[r].pc = "ckWrite" /\ raced("deposit")) =>
                done(LedgerOf(transactions, c)[1].amountCents + creditAmount) ]_vars

\* C9: in every reachable state each Child has at most one Balance row.
C9_OneBalancePerChild ==
  \A i, j \in 1..Len(balances) :
    balances[i].childId = balances[j].childId => i = j

\* A CheckIn lost the race for the Balance of child 1 to a Deposit, and a
\* child created by child-create has its Balance too.
C9_Witness ==
  /\ last = Step("checkin", 500)
  /\ checkins = << >>
  /\ Cardinality(BalanceRows(balances, 1)) = 1
  /\ Len(children) > 1
  /\ \A i \in 1..Len(children) : Cardinality(BalanceRows(balances, children[i].id)) = 1

\* C10: a CheckIn, Withdraw or Deposit answered with an error status leaves
\* Balance, Transaction, Checkin, AuditLog and Child as they were.
C10_ErrorsLeaveNoWrites ==
  [][ (last'.op \in LedgerOps /\ last'.status \notin {0, 200}) =>
        UNCHANGED tables ]_vars

\* The AuditLog action written with a Transaction of each type.
AuditActionOf(type) ==
  CASE type = "credit" -> "checkin"
    [] type = "withdrawal" -> "withdraw"
    [] OTHER -> "deposit"

\* C11: in every reachable state the Transactions of each child and type are
\* as many as the AuditLog entries of that child with the matching action
\* (checkin, withdraw, deposit): none is committed without its audit entry.
C11_EveryTransactionAudited ==
  \A c \in 1..MaxChildren + 1, type \in {"credit", "withdrawal", "deposit"} :
    Cardinality({i \in 1..Len(transactions) :
                   transactions[i].childId = c /\ transactions[i].type = type})
      = Cardinality({i \in 1..Len(auditLog) :
                       /\ auditLog[i].entityId = c
                       /\ auditLog[i].action = AuditActionOf(type)})

\* C12: a CheckIn, Withdraw or Deposit whose caller has the role parent is
\* answered 403 for every childId and amount, valid or not, ends there and
\* leaves every table unchanged.
C12_ParentForbidden ==
  [][ \/ /\ last'.status = 403
         /\ req' = req
         /\ UNCHANGED <<users, tables>>
      \/ \A tok \in {t \in Tokens : t.role = "parent"},
            r \in {s \in Reqs : req[s].pc = "idle"},
            c \in ChildIdInputs, amt \in AmountInputs :
           ~ \/ last'.op = "checkin" /\ CheckinBegin(r, c, tok)
             \/ last'.op = "withdraw" /\ WithdrawBegin(r, c, amt, tok)
             \/ last'.op = "deposit" /\ DepositBegin(r, c, amt, tok) ]_vars

\* A parent's Deposit was answered 403 while the child had a balance to
\* protect: a credit of 200 and nothing else.
C12_Witness ==
  /\ last = Step("deposit", 403)
  /\ \E i \in BalanceRows(balances, 1) : balances[i].amountCents = creditAmount
  /\ Len(transactions) = 1

\* C13: the role that authorizes a ledger operation is the caller's persisted
\* User.role: a Deposit by a caller whose User row says parent is answered
\* 403 and changes nothing, whatever role claim the token carries.
C13_PersistedRoleDecides ==
  [][ \A cred \in DOMAIN idp, c \in ChildIdInputs, amt \in AmountInputs :
        ( /\ adm.pc = "idle"
          /\ UserFindUnique(users, cred).role = "parent"
          /\ DepositBegin(1, c, amt, verifyFirebaseToken(cred)) ) =>
          /\ last' = Step("deposit", 403)
          /\ req' = req
          /\ UNCHANGED tables ]_vars

\* C14: a request to a mutating endpoint that is answered 401 (no verifiable
\* credential) or 403 (role outside the endpoint's set) writes nothing and
\* starts no handler; and every request whose verified role is outside the
\* endpoint's set is answered 403, whatever its body.
C14_CredentialThenRole ==
  [][ /\ last'.status \in {401, 403} => UNCHANGED <<db, req, ext>>
      /\ last'.status # 403 => \A cred \in DOMAIN idp :
           LET tok == verifyFirebaseToken(cred)
               outside(op) == last'.op = op /\ tok.role \notin AllowedRoles(op)
           IN ~ \/ /\ outside("child-create")
                   /\ \E name \in {"", "Ann"} : CreateChild(tok, name, "female", "u_v1")
                \/ /\ outside("checkin")
                   /\ \E c \in {0, MaxChildren + 1} : CheckinBegin(1, c, tok)
                \/ /\ outside("withdraw")
                   /\ \E c \in ChildIdInputs, amt \in AmountInputs :
                        WithdrawBegin(1, c, amt, tok)
                \/ /\ outside("deposit")
                   /\ \E c \in ChildIdInputs, amt \in AmountInputs :
                        DepositBegin(1, c, amt, tok)
                \/ /\ outside("vendor-return")
                   /\ \E vendorId \in {"", "u_v1"}, tokensSubmitted \in {-1, 5} :
                        VendorReturn(tok, vendorId, tokensSubmitted)
                \/ /\ outside("create-qr-codes")
                   /\ \E count \in CountInputs : CreateQrCodes(tok, count, << >>)
                \/ /\ outside("set-role")
                   /\ \E role \in RoleInputs : SetRolePersist(tok, "u_none", role) ]_vars

\* A child-create was answered 403 after QR codes and a deposit had been
\* written by others.
C14_Witness ==
  /\ last = Step("child-create", 403)
  /\ qrCodes # {}
  /\ Len(transactions) = 1

\* C15: a child-create by a caller whose persisted role is parent that creates
\* a Child gives it the caller's own User id as parentId, whatever parentId the
\* body supplies, and leaves every stored Child as it was.
C15_ParentCreatesOwnChild ==
  [][ (last'.op = "child-create" /\ children' # children) =>
      \A cred \in DOMAIN idp, name \in {"", "Ann"}, gender \in {"", "female"},
         bodyParentId \in {"", "u_v1", "u_none"} :
        LET caller == UserFindUnique(users, cred)
        IN ( /\ caller.role = "parent"
             /\ CreateChild(verifyFirebaseToken(cred), name, gender, bodyParentId) )
           => /\ Len(children') = Len(children) + 1
              /\ children'[Len(children')].parentId = caller.id
              /\ SubSeq(children', 1, Len(children)) = children ]_vars

\* The parent u_p1 got a child of their own (the bodies name u_v1, u_none or
\* nobody).
C15_Witness ==
  /\ last = Step("child-create", 201)
  /\ children[Len(children)].parentId = "u_p1"

\* C16: a child-create either creates nothing or appends exactly one Child
\* together with its zero-amount Balance; with name or gender missing, or with
\* a volunteer or admin caller supplying no parentId, it is answered 400 and
\* creates no Child and no Balance.
C16_ChildAndBalanceTogether ==
  [][ last'.op = "child-create" =>
      LET n == Len(children)
          nothing == children' = children /\ balances' = balances
      IN /\ \/ nothing
            \/ /\ last'.status = 201
               /\ Len(children') = n + 1
               /\ SubSeq(children', 1, n) = children
               /\ balances' = Append(balances,
                    [childId |-> children'[n + 1].id, amountCents |-> 0,
                     lastCheckin |-> -1])
         /\ \/ last'.status = 400 /\ nothing
            \/ \A cred \in DOMAIN idp, name \in {"", "Ann"}, gender \in {"", "female"},
                  bodyParentId \in {"", "u_v1", "u_none"} :
                 LET tok == verifyFirebaseToken(cred)
                     caller == UserFindUnique(users, cred)
                 IN ( /\ requireRole({"parent", "volunteer", "admin"}, tok)
                      /\ \/ name = ""
                         \/ gender = ""
                         \/ caller.role \in {"volunteer", "admin"} /\ bodyParentId = "" )
                    => ~CreateChild(tok, name, gender, bodyParentId) ]_vars

\* The last child-create created the second Child, which has its zero Balance.
C16_Witness ==
  /\ last = Step("child-create", 201)
  /\ Len(children) = 2
  /\ \E i \in 1..Len(balances) :
       balances[i].childId = children[2].id /\ balances[i].amountCents = 0

C18_TwoPhaseNoRollback ==
  [][ /\ (adm.pc = "idle" /\ adm'.pc = "claim") =>
           /\ UserById(users', adm'.userId).role = adm'.role
           /\ idp' = idp
      /\ idp' # idp => adm.pc = "claim"
      /\ (adm.pc = "claim" /\ adm'.pc = "idle" /\ last'.status # 200) =>
           /\ last' = Step("set-role", 500)
           /\ UserById(users', adm.userId).role = adm.role
           /\ users' = users
           /\ idp' = idp ]_vars

\* The role of u_v1 was changed to parent, the request was answered 500, and
\* the provider's claims are the initial ones.
C18_Witness ==
  /\ last = Step("set-role", 500)
  /\ UserById(users, "u_v1").role = "parent"
  /\ idp = InitClaims

C20_ExactlyNNewCodes ==
  [][ (last'.op = "create-qr-codes" /\ last'.status = 200) =>
        /\ qrCodes \subseteq qrCodes'
        /\ reply' \in 1..MaxCount
        /\ Cardinality(qrCodes' \ qrCodes) = reply' ]_vars

\* C21: after every step no two Checkin rows of one child carry the same
\* calendar day; and a check-in that reaches its write on a day that already
\* has a Checkin of the child (the 14-hour test having let it through) is
\* answered 500 and leaves every table, the balance included, as it was.
C21_OneCheckinPerDay ==
  [][ /\ \A i, j \in 1..Len(checkins') :
           (i # j /\ checkins'[i].childId = checkins'[j].childId) =>
             checkins'[i].checkinDate # checkins'[j].checkinDate
      /\ \A r \in Reqs :
           ( /\ req[r].pc = "ckWrite"
             /\ Finishes(r)
             /\ UserFindUnique(users, req[r].token.uid) # NoUser
             /\ \E i \in 1..Len(checkins) :
                  /\ checkins[i].childId = req[r].childId
                  /\ checkins[i].checkinDate = toDateString(req[r].now) ) =>
             (last' = Step("checkin", 500) /\ UNCHANGED tables) ]_vars

\* A check-in of child 1 fourteen hours after its only Checkin, on the same
\* day, was answered 500; the balance holds the one credit.
C21_Witness ==
  /\ last = Step("checkin", 500)
  /\ Len(checkins) = 1
  /\ LastCheckinAt(1, clock, cooldownHours)
  /\ toDateString(clock) = checkins[1].checkinDate
  /\ \E i \in BalanceRows(balances, 1) : balances[i].amountCents = creditAmount

\* C22: with requests served one after the other, a check-in that passed the
\* 14-hour test (no Checkin of the child is younger than 14 hours at the
\* request's instant, the caller has a User row, the Balance is as it was
\* read) commits its Checkin row: it is answered 200 and never rejected by
\* the (child, calendar day) unique index.
C22_DayIndexUnreachable ==
  [][ \A r \in Reqs :
        ( /\ req[r].pc = "ckWrite"
          /\ Finishes(r)
          /\ InFlight = {r}
          /\ UserFindUnique(users, req[r].token.uid) # NoUser
          /\ req[r].sawBalance = (BalanceRows(balances, req[r].childId) # {})
          /\ \A i \in 1..Len(checkins) :
               checkins[i].childId = req[r].childId =>
                 ~TooSoon(hoursBetween(req[r].now, checkins[i].checkinTime)) ) =>
          /\ last' = Step("checkin", 200)
          /\ Len(checkins') = Len(checkins) + 1
          /\ checkins'[Len(checkins')].checkinTime = req[r].now ]_vars

\* C23: a Withdraw by a volunteer or admin, with a childId and a positive
\* amount, on a child that has no Balance row is answered 404, ends there,
\* and leaves every table as it was: no Balance is created.
C23_NoBalanceNotFound ==
  [][ last'.op = "withdraw" =>
      \A r \in Reqs, c \in ChildIdInputs \ {0}, amt \in AmountInputs, tok \in Tokens :
        ( /\ tok.role \in {"volunteer", "admin"}
          /\ ~InvalidAmount(amt)
          /\ BalanceRows(balances, c) = {}
          /\ WithdrawBegin(r, c, amt, tok) ) =>
          (last' = Step("withdraw", 404) /\ req' = req /\ UNCHANGED tables) ]_vars

\* C24: a Withdraw or Deposit by a volunteer or admin whose amountCents is not
\* a positive integer (a string, zero, negative, a fraction) is answered 400,
\* starts no transaction and leaves every table as it was.
C24_AmountValidated ==
  [][ last'.op \in {"withdraw", "deposit"} =>
      \A r \in Reqs, c \in ChildIdInputs, tok \in Tokens,
         a \in {b \in AmountBodies : InvalidAmountBody(b) \/ ~IsInt(b)} :
        ( /\ tok.role \in {"volunteer", "admin"}
          /\ \/ last'.op = "withdraw" /\ WithdrawBody(r, c, a, tok)
             \/ last'.op = "deposit" /\ DepositBody(r, c, a, tok) ) =>
          (last'.status = 400 /\ req' = req /\ UNCHANGED tables) ]_vars

\* C25: for every sortBy, order and search, the children the CSV export
\* returns are, in the same order, the children one of the listing's results
\* for the same parameters holds when it is asked for every row at once.
C25_ExportAsListing ==
  [][ last' = Step("children/export", 200) =>
        \E l \in ListRows(view'.sortBy, view'.order, view'.search, 0, Len(children)) :
          /\ Len(l) = Len(view'.rows)
          /\ \A i \in 1..Len(l) : l[i].name = view'.rows[i].name ]_vars

\* C26: the rows of a children listing are ordered by the requested key, in
\* the requested direction, for each of name, age, balance, parentName,
\* timesCheckedIn and lastCheckin; for every other key they are ordered by
\* parent name ascending, then child name ascending, whatever the direction.
C26_ListingOrdered ==
  [][ last' = Step("children", 200) =>
        LET rows == view'.rows
            n == Len(rows)
            Le(a, b, key) ==
              CASE key = "name" -> ~TextLess(b.name, a.name)
                [] key = "age" -> a.age <= b.age
                [] key = "balance" -> a.balanceCents <= b.balanceCents
                [] key = "parentName" -> ~TextLess(b.parentName, a.parentName)
                [] key = "timesCheckedIn" -> a.timesCheckedIn <= b.timesCheckedIn
                [] OTHER -> a.lastCheckin <= b.lastCheckin
            allowed == {"name", "age", "balance", "parentName", "timesCheckedIn",
                        "lastCheckin"}
        IN \A i, j \in 1..n : i < j =>
             IF view'.sortBy \in allowed
             THEN IF OrderOf(view'.order) = "asc"
                  THEN Le(rows[i], rows[j], view'.sortBy)
                  ELSE Le(rows[j], rows[i], view'.sortBy)
             ELSE \/ TextLess(rows[i].parentName, rows[j].parentName)
                  \/ /\ rows[i].parentName = rows[j].parentName
                     /\ ~TextLess(rows[j].name, rows[i].name) ]_vars

\* C27: no step updates or deletes a stored AuditLog, Transaction, Checkin or
\* VendorTokenTurnin row: each of these tables keeps every row it had, with
\* its field values, and only gains rows at its end.
C27_AppendOnly ==
  [][ LET grows(old, new) ==
            Len(new) >= Len(old) /\ SubSeq(new, 1, Len(old)) = old
      IN /\ grows(auditLog, auditLog')
         /\ grows(transactions, transactions')
         /\ grows(checkins, checkins')
         /\ grows(turnins, turnins') ]_vars

\* A Withdraw was answered 200 after a CheckIn: the tables hold a Checkin, two
\* Transactions and two AuditLog entries.
C27_Witness ==
  /\ last = Step("withdraw", 200)
  /\ Len(checkins) = 1
  /\ Len(transactions) = 2
  /\ Len(auditLog) = 2

\* C28: in every reachable state, for every child, Child.timesCheckedIn is
\* the number of the child's Checkin rows and the number of its credit
\* Transactions, and when the child has a Checkin its Balance.lastCheckin is
\* the checkinTime of the most recent one.
C28_CountersAgree ==
  \A k \in 1..Len(children) :
    LET c == children[k].id
        mine == {i \in 1..Len(checkins) : checkins[i].childId = c}
        credits == {i \in 1..Len(transactions) :
                      transactions[i].childId = c /\ transactions[i].type = "credit"}
    IN /\ children[k].timesCheckedIn = Cardinality(mine)
       /\ children[k].timesCheckedIn = Cardinality(credits)
       /\ mine # {} =>
            \E b \in BalanceRows(balances, c) :
              balances[b].lastCheckin = checkins[CheckinFindFirst(checkins, c)].checkinTime

\* C29: a step that adds a User row whose role is not parent, or that changes
\* the role of a stored User row, is the step of a request whose caller's role
\* claim is admin; users-create answers 403 to any other caller asking for a
\* role other than parent and writes nothing.
C29_RolesFromAdminsOnly ==
  [][LET escalation ==
           \/ \E u \in users' : (\A v \in users : v.id # u.id) /\ u.role # "parent"
           \/ \E u \in users', v \in users : u.id = v.id /\ u.role # v.role
     IN escalation =>
          \E cred \in DOMAIN idp :
            LET tok == verifyFirebaseToken(cred)
            IN /\ tok.role = "admin"
               /\ \/ \E name \in NameInputs, email \in EmailInputs,
                        bodyRole \in BodyRoleInputs :
                       UsersCreate(tok, name, email, bodyRole)
                  \/ \E firebaseUid \in FirebaseUidInputs, email \in AdminEmailInputs :
                       AdminCreate(tok, firebaseUid, email)
                  \/ \E name \in NameInputs, email \in AccountEmailInputs,
                        role \in BodyRoleInputs :
                       AdminCreateUser(tok, name, email, role)
                  \/ \E userId \in UserIdInputs \cup {"u_n1"}, role \in RoleInputs :
                       SetRolePersist(tok, userId, role)]_vars

\* A caller without a User row registered as a parent, and a caller who is not
\* an admin asked users-create for another role and was refused.
C29_Witness ==
  /\ last = Step("users-create", 403)
  /\ \E u \in users : u.firebaseUid = "f_x" /\ u.role = "parent" /\ u.id = "u_n1"
  /\ \A u \in users : u.id \in {"u_n1", "u_n2"} => u.role = "parent"

\* C30: every step in which a check-in, withdraw or deposit request is answered
\* sends exactly one response, and the status it answers is 200 exactly when
\* the step committed a change to the stored rows.
C30_ExactlyOneResponse ==
  [][(last'.op \in LedgerOps /\ last'.status # 0) =>
        /\ sends' = 1
        /\ (last'.status = 200) <=> (db' # db)]_vars

====
